---- MODULE Spec2Model ----
(***************************************************************************)
(* Model of network/haproxy.py: one invocation of the haproxy module       *)
(* (main -> HAProxy.act) talking to the HAProxy statistics socket, and the *)
(* re-run of the same request against the load-balancer state that the     *)
(* previous run left behind.                                               *)
(*                                                                         *)
(* Strings are TLA+ strings.  A command line is the sequence of its        *)
(* "; "-separated sub-commands, each a record [op, px, sv, arg].  A line   *)
(* of the statistics dump is the sequence of its comma separated fields    *)
(* (NumFields of them); only the columns 0, 1, 17 and 18 carry data.       *)
(* A Python value-or-exception is a record [exc, val] (exc = "" : value).  *)
(***************************************************************************)
EXTENDS Integers, Sequences, FiniteSets, TLC

\* ---------------------------------------------------------------- bounds
\* number of invocations run in succession against the same load balancer
MaxRuns == 2
\* largest number of non-empty buffers recv() returns for one answer (the
\* peer answers every line with at least one) before the end of the stream
MaxChunks == 2

\* ------------------------------------------------------------- constants
ACTION_CHOICES == {"enabled", "disabled"}

\* Python None (module parameter that was not supplied)
None == "None"
\* host_attributes when get_host_stat_line falls off the end of its loop
NoneAttrs == <<>>

\* number of comma separated columns of a dump line that the model keeps
NumFields == 19

\* requests the front end can hand to main()
States == ACTION_CHOICES \cup {"restarted"}
Backends == {None, "P1", "P2"}
ReqWeights == {None, "0%", "50%", "100%", "1", "50"}

\* ------------------------------------------------- values and exceptions
Ok(v) == [exc |-> "", val |-> v]
Raise(e, v) == [exc |-> e, val |-> v]

\* ------------------------------------------------------- command strings
SubCmd(op, px, sv, arg) == [op |-> op, px |-> px, sv |-> sv, arg |-> arg]
ShowStat == SubCmd("show stat", "", "", "")
MutatingOps == {"set weight", "enable server", "disable server",
                "shutdown sessions server"}

\* the sub-commands of a line that change the load balancer
Mutating(line) == SelectSeq(line, LAMBDA c : c.op \in MutatingOps)
IsMutating(line) == Mutating(line) # <<>>
Ops(line) == [i \in DOMAIN line |-> line[i].op]

\* ------------------------------------------------- the peer (HAProxy)
\* percentage weight expressions and the decimal rendering of weights
PctValue == ("0%" :> 0) @@ ("50%" :> 50) @@ ("100%" :> 100)
NumStr == (0 :> "0") @@ (1 :> "1") @@ (25 :> "25") @@ (50 :> "50")

\* "If the value ends with the '%' sign, then the new weight will be
\* relative to the initially configured weight", otherwise absolute.
NewWeight(iweight, w) ==
    IF w \in DOMAIN PctValue
    THEN NumStr[(iweight * PctValue[w] + 99) \div 100]
    ELSE w

\* effect of one sub-command on one server of the load balancer
ApplyToServer(s, c) ==
    IF s.pxname # c.px \/ s.svname # c.sv THEN s
    ELSE CASE c.op = "set weight" -> [s EXCEPT !.weight = NewWeight(s.iweight, c.arg)]
           [] c.op = "enable server" -> [s EXCEPT !.status = "UP"]
           [] c.op = "disable server" -> [s EXCEPT !.status = "MAINT"]
           [] OTHER -> s

RECURSIVE ApplyLine(_, _)
\* the peer runs the sub-commands of one line from left to right
ApplyLine(srvs, line) ==
    IF line = <<>> THEN srvs
    ELSE ApplyLine([i \in DOMAIN srvs |-> ApplyToServer(srvs[i], Head(line))],
                   Tail(line))

\* one record of "show stat", split at the commas
LineParts(s) ==
    [i \in 1..NumFields |->
        CASE i = 1 -> s.pxname
          [] i = 2 -> s.svname
          [] i = 18 -> s.status
          [] i = 19 -> s.weight
          [] OTHER -> ""]

\* the header line "# pxname,svname,...", after lstrip('# ')
HeaderParts ==
    [i \in 1..NumFields |->
        CASE i = 1 -> "pxname"
          [] i = 2 -> "svname"
          [] i = 18 -> "status"
          [] i = 19 -> "weight"
          [] OTHER -> ""]

\* ------------------------------------------------------------ the state
VARIABLES
    servers,          \* the load balancer: its servers in dump order
    params,           \* module.params and module.check_mode of the request
    run,              \* 1 = first invocation, 2 = the same request again
    pc,               \* position of the invocation
    ret,              \* where execute() returns to
    cmd,              \* argument of the running execute()
    rem,              \* non-empty buffers recv() still returns before ''
    result,           \* return value of the last execute('show stat')
    backend,          \* self.backend
    host_attributes,  \* self.host_attributes
    weight_changed,   \* the weight decision of enabled()
    status_changed,   \* the maintenance test of enabled() / disabled()
    changed,          \* act's local 'changed'
    err,              \* the exception or fail_json that ended the invocation
    sent,             \* the lines this invocation wrote to the socket
    nopen,            \* sockets created and not yet closed by this invocation
    first             \* what the previous invocation reported

vars == <<servers, params, run, pc, ret, cmd, rem, result, backend,
          host_attributes, weight_changed, status_changed, changed, err,
          sent, nopen, first>>

\* ------------------------------------------------------ StatSnapshot
\* output.lstrip('# ').strip().split('\n'), every line split at ','
get_stat_output(srvs) ==
    <<HeaderParts>> \o [i \in DOMAIN srvs |-> LineParts(srvs[i])]

RECURSIVE get_host_stat_line(_, _)
get_host_stat_line(host, stat_output) ==
    IF stat_output = <<>> THEN NoneAttrs
    ELSE LET line_parts == Head(stat_output)
             svname == line_parts[2]
         IN IF svname = host THEN line_parts
            ELSE get_host_stat_line(host, Tail(stat_output))

AttributeIndex == ("pxname" :> 0) @@ ("status" :> 17) @@ ("weight" :> 18)

\* variant: a missing record reads as empty fields instead of raising
get_host_attribute_blank(attrs, name) ==
    IF attrs = NoneAttrs THEN Ok("")
    ELSE IF AttributeIndex[name] + 1 \notin DOMAIN attrs THEN Ok("")
    ELSE Ok(attrs[AttributeIndex[name] + 1])

get_host_attribute(attrs, name) ==
    IF attrs = NoneAttrs THEN Raise("TypeError", "")
    ELSE IF AttributeIndex[name] + 1 \notin DOMAIN attrs THEN Raise("IndexError", "")
    ELSE Ok(attrs[AttributeIndex[name] + 1])

get_backend(attrs) == get_host_attribute(attrs, "pxname")

get_current_weight(attrs) == get_host_attribute(attrs, "weight")

is_host_in_maintanence_mode(attrs) ==
    LET status == get_host_attribute(attrs, "status")
    IN IF status.exc # "" THEN Raise(status.exc, FALSE)
       ELSE Ok(status.val = "MAINT")

\* ------------------------------------------------------ WeightPolicy
\* variant: the "0%" / "0" equivalence left out
is_weight_changed_plain(weight, attrs) ==
    IF weight = None THEN Ok(FALSE)
    ELSE LET current_weight == get_current_weight(attrs)
         IN IF current_weight.exc # "" THEN Raise(current_weight.exc, FALSE)
            ELSE IF weight = "100%" /\ current_weight.val = "1" THEN Ok(FALSE)
            ELSE Ok(weight # current_weight.val)

is_weight_changed(weight, attrs) ==
    IF weight = None THEN Ok(FALSE)
    ELSE LET current_weight == get_current_weight(attrs)
         IN IF current_weight.exc # "" THEN Raise(current_weight.exc, FALSE)
            ELSE IF weight = "100%" /\ current_weight.val = "1" THEN Ok(FALSE)
            ELSE IF weight = "0%" /\ current_weight.val = "0" THEN Ok(FALSE)
            ELSE Ok(weight # current_weight.val)

\* ---------------------------------------------------- ReconcileEngine
GetWeight(pxname, svname) == SubCmd("get weight", pxname, svname, "")
SetWeight(pxname, svname, weight) == SubCmd("set weight", pxname, svname, weight)
EnableServer(pxname, svname) == SubCmd("enable server", pxname, svname, "")
\* variant: the command word of enabled() pasted into disabled()
DisableServer_pasted(pxname, svname) == SubCmd("enable server", pxname, svname, "")

DisableServer(pxname, svname) == SubCmd("disable server", pxname, svname, "")
ShutdownSessions(pxname, svname) ==
    SubCmd("shutdown sessions server", pxname, svname, "")

\* what enabled() / disabled() does up to its call of execute(): the
\* exception it dies of (if any), its two tests, the line it hands to
\* execute() (<<>>: it returns without calling execute()) and the value it
\* returns once execute() is back
Plan(exc, wc, sc, line, rv) ==
    [exc |-> exc, weight_changed |-> wc, status_changed |-> sc,
     cmd |-> line, changed |-> rv]

\* variant: the check_mode test left out
enabled_live(pxname, svname, weight, attrs, check_mode) ==
    LET get == <<GetWeight(pxname, svname)>>
        wc == is_weight_changed(weight, attrs)
        sc == is_host_in_maintanence_mode(attrs)
    IN IF wc.exc # "" THEN Plan(wc.exc, FALSE, FALSE, <<>>, TRUE)
       ELSE IF sc.exc # "" THEN Plan(sc.exc, wc.val, FALSE, <<>>, TRUE)
       ELSE IF wc.val = FALSE /\ sc.val = FALSE
            THEN Plan("", wc.val, sc.val, get, FALSE)
       ELSE Plan("", wc.val, sc.val,
                 get \o (IF wc.val THEN <<SetWeight(pxname, svname, weight)>> ELSE <<>>)
                     \o (IF sc.val THEN <<EnableServer(pxname, svname)>> ELSE <<>>),
                 TRUE)

\* variant: "elif status_changed", the enable is dropped when the weight is set
enabled_elif(pxname, svname, weight, attrs, check_mode) ==
    LET get == <<GetWeight(pxname, svname)>>
        wc == is_weight_changed(weight, attrs)
        sc == is_host_in_maintanence_mode(attrs)
    IN IF wc.exc # "" THEN Plan(wc.exc, FALSE, FALSE, <<>>, TRUE)
       ELSE IF sc.exc # "" THEN Plan(sc.exc, wc.val, FALSE, <<>>, TRUE)
       ELSE IF wc.val = FALSE /\ sc.val = FALSE
            THEN Plan("", wc.val, sc.val, get, FALSE)
       ELSE IF check_mode THEN Plan("", wc.val, sc.val, get, TRUE)
       ELSE Plan("", wc.val, sc.val,
                 get \o (IF wc.val THEN <<SetWeight(pxname, svname, weight)>>
                         ELSE IF sc.val THEN <<EnableServer(pxname, svname)>>
                         ELSE <<>>),
                 TRUE)

\* variant: the two appends in the other order
enabled_swapped(pxname, svname, weight, attrs, check_mode) ==
    LET get == <<GetWeight(pxname, svname)>>
        wc == is_weight_changed(weight, attrs)
        sc == is_host_in_maintanence_mode(attrs)
    IN IF wc.exc # "" THEN Plan(wc.exc, FALSE, FALSE, <<>>, TRUE)
       ELSE IF sc.exc # "" THEN Plan(sc.exc, wc.val, FALSE, <<>>, TRUE)
       ELSE IF wc.val = FALSE /\ sc.val = FALSE
            THEN Plan("", wc.val, sc.val, get, FALSE)
       ELSE IF check_mode THEN Plan("", wc.val, sc.val, get, TRUE)
       ELSE Plan("", wc.val, sc.val,
                 get \o (IF sc.val THEN <<EnableServer(pxname, svname)>> ELSE <<>>)
                     \o (IF wc.val THEN <<SetWeight(pxname, svname, weight)>> ELSE <<>>),
                 TRUE)

\* variant: the no-op path returns False without its "get weight" query
enabled_quiet(pxname, svname, weight, attrs, check_mode) ==
    LET get == <<GetWeight(pxname, svname)>>
        wc == is_weight_changed(weight, attrs)
        sc == is_host_in_maintanence_mode(attrs)
    IN IF wc.exc # "" THEN Plan(wc.exc, FALSE, FALSE, <<>>, TRUE)
       ELSE IF sc.exc # "" THEN Plan(sc.exc, wc.val, FALSE, <<>>, TRUE)
       ELSE IF wc.val = FALSE /\ sc.val = FALSE
            THEN Plan("", wc.val, sc.val, <<>>, FALSE)
       ELSE IF check_mode THEN Plan("", wc.val, sc.val, get, TRUE)
       ELSE Plan("", wc.val, sc.val,
                 get \o (IF wc.val THEN <<SetWeight(pxname, svname, weight)>> ELSE <<>>)
                     \o (IF sc.val THEN <<EnableServer(pxname, svname)>> ELSE <<>>),
                 TRUE)

\* variant: the check_mode test placed before the no-op test
enabled_dry_first(pxname, svname, weight, attrs, check_mode) ==
    LET get == <<GetWeight(pxname, svname)>>
        wc == is_weight_changed(weight, attrs)
        sc == is_host_in_maintanence_mode(attrs)
    IN IF wc.exc # "" THEN Plan(wc.exc, FALSE, FALSE, <<>>, TRUE)
       ELSE IF sc.exc # "" THEN Plan(sc.exc, wc.val, FALSE, <<>>, TRUE)
       ELSE IF check_mode THEN Plan("", wc.val, sc.val, get, TRUE)
       ELSE IF wc.val = FALSE /\ sc.val = FALSE
            THEN Plan("", wc.val, sc.val, get, FALSE)
       ELSE Plan("", wc.val, sc.val,
                 get \o (IF wc.val THEN <<SetWeight(pxname, svname, weight)>> ELSE <<>>)
                     \o (IF sc.val THEN <<EnableServer(pxname, svname)>> ELSE <<>>),
                 TRUE)

enabled(pxname, svname, weight, attrs, check_mode) ==
    LET get == <<GetWeight(pxname, svname)>>
        wc == is_weight_changed(weight, attrs)
        sc == is_host_in_maintanence_mode(attrs)
    IN IF wc.exc # "" THEN Plan(wc.exc, FALSE, FALSE, <<>>, TRUE)
       ELSE IF sc.exc # "" THEN Plan(sc.exc, wc.val, FALSE, <<>>, TRUE)
       ELSE IF wc.val = FALSE /\ sc.val = FALSE
            THEN Plan("", wc.val, sc.val, get, FALSE)
       ELSE IF check_mode THEN Plan("", wc.val, sc.val, get, TRUE)
       ELSE Plan("", wc.val, sc.val,
                 get \o (IF wc.val THEN <<SetWeight(pxname, svname, weight)>> ELSE <<>>)
                     \o (IF sc.val THEN <<EnableServer(pxname, svname)>> ELSE <<>>),
                 TRUE)

\* variant: the dry run returns False
disabled_dry_false(pxname, svname, shutdown_sessions, attrs, check_mode) ==
    LET get == <<GetWeight(pxname, svname)>>
        sc == is_host_in_maintanence_mode(attrs)
    IN IF sc.exc # "" THEN Plan(sc.exc, FALSE, FALSE, <<>>, TRUE)
       ELSE IF sc.val THEN Plan("", FALSE, sc.val, get, FALSE)
       ELSE IF check_mode THEN Plan("", FALSE, sc.val, get, FALSE)
       ELSE Plan("", FALSE, sc.val,
                 get \o <<DisableServer(pxname, svname)>>
                     \o (IF shutdown_sessions THEN <<ShutdownSessions(pxname, svname)>>
                         ELSE <<>>),
                 TRUE)

\* variant: the sessions are shut down whatever the flag says
disabled_always_shutdown(pxname, svname, shutdown_sessions, attrs, check_mode) ==
    LET get == <<GetWeight(pxname, svname)>>
        sc == is_host_in_maintanence_mode(attrs)
    IN IF sc.exc # "" THEN Plan(sc.exc, FALSE, FALSE, <<>>, TRUE)
       ELSE IF sc.val THEN Plan("", FALSE, sc.val, get, FALSE)
       ELSE IF check_mode THEN Plan("", FALSE, sc.val, get, TRUE)
       ELSE Plan("", FALSE, sc.val,
                 get \o <<DisableServer(pxname, svname)>>
                     \o <<ShutdownSessions(pxname, svname)>>,
                 TRUE)

disabled(pxname, svname, shutdown_sessions, attrs, check_mode) ==
    LET get == <<GetWeight(pxname, svname)>>
        sc == is_host_in_maintanence_mode(attrs)
    IN IF sc.exc # "" THEN Plan(sc.exc, FALSE, FALSE, <<>>, TRUE)
       ELSE IF sc.val THEN Plan("", FALSE, sc.val, get, FALSE)
       ELSE IF check_mode THEN Plan("", FALSE, sc.val, get, TRUE)
       ELSE Plan("", FALSE, sc.val,
                 get \o <<DisableServer(pxname, svname)>>
                     \o (IF shutdown_sessions THEN <<ShutdownSessions(pxname, svname)>>
                         ELSE <<>>),
                 TRUE)

\* variant: argument_spec without choices for state
AnyState(state) == TRUE

\* AnsibleModule(argument_spec = ...): state is checked against its choices
ValidState(state) == state \in ACTION_CHOICES

\* ------------------------------------------------------ initial states
Server(px, sv, st, w, iw) ==
    [pxname |-> px, svname |-> sv, status |-> st, weight |-> w, iweight |-> iw]

\* the member the requests are about, in pool P1, as HAProxy may hold it
Target == {Server("P1", "H1", st, wi[1], wi[2]) :
             st \in {"UP", "MAINT"},
             wi \in {<<"1", 1>>, <<"0", 1>>, <<"50", 50>>}}
\* the same host name as a member of a second pool
Twin == {Server("P2", "H1", st, "1", 1) : st \in {"UP", "MAINT"}}
\* another host
Other == Server("P1", "H2", "UP", "1", 1)

Dumps == {<<t>> : t \in Target}
         \cup {<<Other>>}
         \cup {<<Other, t>> : t \in Target}
         \cup {<<t, u>> : t \in Target, u \in Twin}
         \cup {<<u, t>> : t \in Target, u \in Twin}

Requests == [state : States, host : {"H1"}, backend : Backends,
             weight : ReqWeights, shutdown_sessions : BOOLEAN,
             check_mode : BOOLEAN]

NoReport == [ran |-> FALSE, changed |-> FALSE, check_mode |-> FALSE]

\* HAProxy.__init__ and the locals of a fresh invocation
Fresh(p) ==
    /\ pc = "main"
    /\ ret = ""
    /\ cmd = <<>>
    /\ rem = 0
    /\ result = <<>>
    /\ backend = p.backend
    /\ host_attributes = NoneAttrs
    /\ weight_changed = FALSE
    /\ status_changed = FALSE
    /\ changed = TRUE
    /\ err = ""
    /\ sent = <<>>
    /\ nopen = 0

Init ==
    /\ servers \in Dumps
    /\ params \in Requests
    /\ run = 1
    /\ first = NoReport
    /\ Fresh(params)

\* ------------------------------------------------------------- actions
\* main(): argument validation by AnsibleModule, then HAProxy(module).act(),
\* whose first statement is get_stat_output() -> execute('show stat')
Main ==
    /\ pc = "main"
    /\ IF ValidState(params.state)
       THEN /\ pc' = "connect"
            /\ cmd' = <<ShowStat>>
            /\ ret' = "act"
            /\ err' = err
       ELSE /\ pc' = "failed"
            /\ err' = "usage"
            /\ UNCHANGED <<cmd, ret>>
    /\ UNCHANGED <<servers, params, run, rem, result, backend, host_attributes,
                   weight_changed, status_changed, changed, sent, nopen, first>>

\* execute(): socket.socket(...) and connect()
Connect ==
    /\ pc = "connect"
    /\ nopen' = nopen + 1
    /\ pc' = "send"
    /\ UNCHANGED <<servers, params, run, ret, cmd, rem, result, backend,
                   host_attributes, weight_changed, status_changed, changed,
                   err, sent, first>>

\* connect() raises: the socket object exists, close() is never reached
ConnectFail ==
    /\ pc = "connect"
    /\ nopen' = nopen + 1
    /\ pc' = "failed"
    /\ err' = "socket.error"
    /\ UNCHANGED <<servers, params, run, ret, cmd, rem, result, backend,
                   host_attributes, weight_changed, status_changed, changed,
                   sent, first>>

\* sendall('%s\n' % cmd): the peer gets the line, runs it and queues its answer
Send ==
    /\ pc = "send"
    /\ sent' = Append(sent, cmd)
    /\ servers' = ApplyLine(servers, cmd)
    /\ result' = IF cmd = <<ShowStat>> THEN get_stat_output(servers) ELSE result
    /\ rem' \in 1..MaxChunks
    /\ pc' = "recv"
    /\ UNCHANGED <<params, run, ret, cmd, backend, host_attributes,
                   weight_changed, status_changed, changed, err, nopen, first>>

\* variant: a failed sendall() is swallowed and the command tried again
SendFail_retry ==
    /\ pc = "send"
    /\ pc' = "connect"
    /\ err' = "socket.error"
    /\ UNCHANGED <<servers, params, run, ret, cmd, rem, result, backend,
                   host_attributes, weight_changed, status_changed, changed,
                   sent, nopen, first>>

SendFail ==
    /\ pc = "send"
    /\ pc' = "failed"
    /\ err' = "socket.error"
    /\ UNCHANGED <<servers, params, run, ret, cmd, rem, result, backend,
                   host_attributes, weight_changed, status_changed, changed,
                   sent, nopen, first>>

\* variant: the loop body does not call recv() again, buf never changes
RecvChunk_stuck ==
    /\ pc = "recv"
    /\ rem > 0
    /\ UNCHANGED vars

\* recv() returns a non-empty buffer: the loop goes round
RecvChunk ==
    /\ pc = "recv"
    /\ rem > 0
    /\ rem' = rem - 1
    /\ UNCHANGED <<servers, params, run, pc, ret, cmd, result, backend,
                   host_attributes, weight_changed, status_changed, changed,
                   err, sent, nopen, first>>

\* recv() returns '': the loop ends, close(), return result
RecvEOF ==
    /\ pc = "recv"
    /\ rem = 0
    /\ nopen' = nopen - 1
    /\ pc' = ret
    /\ UNCHANGED <<servers, params, run, ret, cmd, rem, result, backend,
                   host_attributes, weight_changed, status_changed, changed,
                   err, sent, first>>

RecvFail ==
    /\ pc = "recv"
    /\ pc' = "failed"
    /\ err' = "socket.error"
    /\ UNCHANGED <<servers, params, run, ret, cmd, rem, result, backend,
                   host_attributes, weight_changed, status_changed, changed,
                   sent, nopen, first>>

\* act(), from the return of get_stat_output() to the execute() call of
\* enabled() or disabled()
Act ==
    /\ pc = "act"
    /\ LET attrs == get_host_stat_line(params.host, result)
           px == IF backend = None THEN get_backend(attrs) ELSE Ok(backend)
           plan == IF params.state = "enabled"
                   THEN enabled(px.val, params.host, params.weight, attrs,
                                params.check_mode)
                   ELSE disabled(px.val, params.host, params.shutdown_sessions,
                                 attrs, params.check_mode)
       IN /\ host_attributes' = attrs
          /\ IF px.exc # ""
             THEN /\ pc' = "failed"
                  /\ err' = px.exc
                  /\ UNCHANGED <<backend, weight_changed, status_changed,
                                 changed, cmd, ret>>
             ELSE IF params.state \notin {"enabled", "disabled"}
             THEN /\ pc' = "failed"
                  /\ err' = "unknown state"
                  /\ backend' = px.val
                  /\ UNCHANGED <<weight_changed, status_changed, changed, cmd, ret>>
             ELSE IF plan.exc # ""
             THEN /\ pc' = "failed"
                  /\ err' = plan.exc
                  /\ backend' = px.val
                  /\ weight_changed' = plan.weight_changed
                  /\ status_changed' = plan.status_changed
                  /\ UNCHANGED <<changed, cmd, ret>>
             ELSE /\ pc' = IF plan.cmd = <<>> THEN "exit" ELSE "connect"
                  /\ ret' = "exit"
                  /\ cmd' = plan.cmd
                  /\ backend' = px.val
                  /\ weight_changed' = plan.weight_changed
                  /\ status_changed' = plan.status_changed
                  /\ changed' = plan.changed
                  /\ err' = err
    /\ UNCHANGED <<servers, params, run, rem, result, sent, nopen, first>>

\* module.exit_json(stdout=..., changed=changed)
Exit ==
    /\ pc = "exit"
    /\ pc' = "done"
    /\ UNCHANGED <<servers, params, run, ret, cmd, rem, result, backend,
                   host_attributes, weight_changed, status_changed, changed,
                   err, sent, nopen, first>>

\* a new invocation with the parameters p, against the state left behind
Restart(p) ==
    /\ pc = "done"
    /\ run < MaxRuns
    /\ run' = run + 1
    /\ first' = [ran |-> TRUE, changed |-> changed,
                 check_mode |-> params.check_mode]
    /\ params' = p
    /\ pc' = "main"
    /\ ret' = ""
    /\ cmd' = <<>>
    /\ rem' = 0
    /\ result' = <<>>
    /\ backend' = p.backend
    /\ host_attributes' = NoneAttrs
    /\ weight_changed' = FALSE
    /\ status_changed' = FALSE
    /\ changed' = TRUE
    /\ err' = ""
    /\ sent' = <<>>
    /\ nopen' = 0
    /\ UNCHANGED servers

\* the operator runs the same request again
Rerun == Restart(params)

\* the operator runs for real the request that was just previewed
Apply ==
    /\ params.check_mode
    /\ Restart([params EXCEPT !.check_mode = FALSE])

Next ==
    \/ Main
    \/ Connect
    \/ ConnectFail
    \/ Send
    \/ SendFail
    \/ RecvChunk
    \/ RecvEOF
    \/ RecvFail
    \/ Act
    \/ Exit
    \/ Rerun
    \/ Apply

Spec == Init /\ [][Next]_vars

\* the statements of the invocation: each one is executed once control is
\* at it, and a blocking socket call returns (the peer answers every line and
\* then closes the stream).  The failures and the operator's re-runs may
\* happen but need not.
Progress ==
    \/ Main
    \/ Connect
    \/ Send
    \/ RecvChunk
    \/ RecvEOF
    \/ Act
    \/ Exit

LiveSpec == Init /\ [][Next]_vars /\ WF_vars(Progress)

\* ------------------------------------------------- vocabulary of the claims
Live == ~params.check_mode
\* enabled() / disabled() has made its tests and composed its line
Decided == ret = "exit"
\* the lines of this invocation that carry a mutating sub-command
MutatingTrips == {i \in DOMAIN sent : IsMutating(sent[i])}
\* the servers of the load balancer that are the member <pool>/<host> of the
\* request (pool: as supplied, or as auto-detected)
Named == {i \in DOMAIN servers :
            servers[i].pxname = backend /\ servers[i].svname = params.host}
\* the statistics dump has been taken and no record of it names the host
HostAbsent ==
    /\ result # <<>>
    /\ \A i \in DOMAIN result : result[i][2] # params.host
\* the weight policy as stated: no change is needed exactly in these cases
NoChangeNeeded(requested, current) ==
    \/ requested = None
    \/ requested = current
    \/ requested = "100%" /\ current = "1"
    \/ requested = "0%" /\ current = "0"
\* the mutating sub-commands the branch taken has decided on
DecidedMutations ==
    IF params.state = "enabled"
    THEN (IF weight_changed
          THEN <<SetWeight(backend, params.host, params.weight)>> ELSE <<>>)
         \o (IF status_changed THEN <<EnableServer(backend, params.host)>> ELSE <<>>)
    ELSE IF status_changed THEN <<>>
    ELSE <<DisableServer(backend, params.host)>>
         \o (IF params.shutdown_sessions
             THEN <<ShutdownSessions(backend, params.host)>> ELSE <<>>)

\* ------------------------------------------------------------- the claims
\* C1: a live `enabled` invocation for an existing member that is run again
\* with the same request, against the state the first run left behind,
\* reports changed = false.
C1_Idempotent ==
    (/\ run > 1
     /\ ~first.check_mode
     /\ pc = "done"
     /\ params.state = "enabled"
     /\ Live
     /\ Named # {})
        => changed = FALSE

\* C2: with check_mode set, nothing but `show stat` and `get weight` is ever
\* written to the socket (or handed to execute), whatever the desired state
\* and the member's status and weight.
C2_DryRunPure ==
    params.check_mode =>
        /\ \A i \in DOMAIN sent : \A j \in DOMAIN sent[i] :
               sent[i][j].op \in {"show stat", "get weight"}
        /\ \A j \in DOMAIN cmd : cmd[j].op \in {"show stat", "get weight"}

C2_Witness ==
    /\ params.check_mode
    /\ pc = "done"
    /\ changed = TRUE
    /\ Len(sent) = 2

\* C3: after a live invocation that completed without error, the member
\* <pool>/<host> of the request is out of MAINT (and has the requested weight,
\* if one was given) for `enabled`, and is in MAINT for `disabled`.
C3_Converges ==
    (pc = "done" /\ Live) =>
        \A i \in Named :
            IF params.state = "enabled"
            THEN /\ servers[i].status # "MAINT"
                 /\ params.weight # None =>
                        servers[i].weight = NewWeight(servers[i].iweight, params.weight)
            ELSE servers[i].status = "MAINT"

\* C4: at most one line of an invocation carries mutating sub-commands, and
\* such a line carries all the mutating sub-commands the branch decided on.
C4_NoPartial ==
    /\ Cardinality(MutatingTrips) <= 1
    /\ \A i \in MutatingTrips :
           /\ Decided
           /\ Mutating(sent[i]) = DecidedMutations

C4_Witness ==
    /\ pc = "done"
    /\ \E i \in MutatingTrips : Len(Mutating(sent[i])) = 2

\* C5: a live `enabled` invocation that found the member in MAINT with a
\* weight that needs changing has, when it is done, sent exactly the snapshot
\* query and then one line `get weight; set weight; enable server`, in that
\* order.
C5_Composite ==
    (/\ pc = "done"
     /\ params.state = "enabled"
     /\ Live
     /\ host_attributes[18] = "MAINT"
     /\ ~NoChangeNeeded(params.weight, host_attributes[19]))
        => sent = << <<ShowStat>>,
                     <<GetWeight(backend, params.host),
                       SetWeight(backend, params.host, params.weight),
                       EnableServer(backend, params.host)>> >>

C5_Witness ==
    /\ pc = "done"
    /\ params.state = "enabled"
    /\ Live
    /\ host_attributes[18] = "MAINT"
    /\ ~NoChangeNeeded(params.weight, host_attributes[19])
    /\ Len(sent[2]) = 3

\* C6: when no record of the dump names the host, the invocation never gets
\* past act(): it sends nothing after `show stat`, reports no result, and
\* act() ends it with an exception.
C6_NotFound ==
    HostAbsent =>
        /\ pc \in {"recv", "act", "failed"}
        /\ sent = << <<ShowStat>> >>
        /\ pc = "failed" => err \in {"TypeError", "socket.error"}

C6_Witness ==
    /\ HostAbsent
    /\ params.backend # None
    /\ params.weight # None
    /\ pc = "failed"
    /\ err = "TypeError"

\* C7 as stated: a completed invocation has made two round trips on the
\* mutating path and one on the no-op path.
C7_RoundTrips ==
    pc = "done" =>
        /\ MutatingTrips # {} => Len(sent) = 2
        /\ changed = FALSE => Len(sent) = 1

\* C7 amended: a completed invocation has made exactly two round trips on
\* every path, `show stat` and then one line that starts with `get weight`.
C7_TwoRoundTrips ==
    pc = "done" =>
        /\ Len(sent) = 2
        /\ sent[1] = <<ShowStat>>
        /\ sent[2][1] = GetWeight(backend, params.host)

C7_Witness ==
    /\ pc = "done"
    /\ changed = FALSE
    /\ Len(sent) = 2
    /\ MutatingTrips = {}

\* C8: when the invocation has ended, in a result or in a failure, every
\* socket it created has been closed.
C8_AllClosed ==
    pc \in {"done", "failed"} => nopen = 0

\* C9: a desired state outside the choices ends the invocation in a usage
\* error before anything is connected or sent.
C9_UsageFirst ==
    params.state \notin ACTION_CHOICES =>
        /\ pc \in {"main", "failed"}
        /\ pc = "failed" => err = "usage"
        /\ sent = <<>>
        /\ nopen = 0

C9_Witness ==
    /\ params.state \notin ACTION_CHOICES
    /\ pc = "failed"
    /\ err = "usage"

\* C10: the weight decision of enabled() is false exactly when the request is
\* absent, string-equal to the current weight, ("100%", "1") or ("0%", "0").
C10_WeightPolicy ==
    (Decided /\ params.state = "enabled") =>
        weight_changed = ~NoChangeNeeded(params.weight, host_attributes[19])

C10_Witness ==
    /\ Decided
    /\ params.state = "enabled"
    /\ params.weight = "50%"
    /\ host_attributes[19] = "50"
    /\ weight_changed = TRUE

\* C11: the live run of a request that was just previewed with check_mode,
\* against the state the preview left, reports the `changed` the preview
\* reported.
C11_DryRunReports ==
    (run > 1 /\ pc = "done" /\ first.check_mode /\ Live)
        => changed = first.changed

C11_Witness ==
    /\ run > 1
    /\ pc = "done"
    /\ first.check_mode
    /\ Live
    /\ changed = TRUE
    /\ MutatingTrips # {}

\* C12: the line a completed live `enabled` run sent after the snapshot is
\* `get weight P/H`, then `set weight P/H w` iff the weight read needs
\* changing, then `enable server P/H` iff the status read is MAINT; changed
\* is false exactly when the line is `get weight P/H` alone.
C12_EnabledLine ==
    (pc = "done" /\ params.state = "enabled" /\ Live) =>
        /\ sent[2] =
              <<GetWeight(backend, params.host)>>
              \o (IF ~NoChangeNeeded(params.weight, host_attributes[19])
                  THEN <<SetWeight(backend, params.host, params.weight)>>
                  ELSE <<>>)
              \o (IF host_attributes[18] = "MAINT"
                  THEN <<EnableServer(backend, params.host)>> ELSE <<>>)
        /\ changed = (sent[2] # <<GetWeight(backend, params.host)>>)

\* status MAINT, weight "1", requested "100%": get weight; enable server
C12_Witness ==
    /\ pc = "done"
    /\ params.state = "enabled"
    /\ Live
    /\ host_attributes[18] = "MAINT"
    /\ host_attributes[19] = "1"
    /\ params.weight = "100%"
    /\ sent[2] = <<GetWeight(backend, params.host),
                   EnableServer(backend, params.host)>>
    /\ changed = TRUE

C14_ChangedIff ==
    pc = "done" =>
        (changed <=> \/ MutatingTrips # {}
                     \/ params.check_mode /\ DecidedMutations # <<>>)

C14_Witness ==
    /\ pc = "done"
    /\ params.check_mode
    /\ changed = TRUE
    /\ MutatingTrips = {}
    /\ DecidedMutations # <<>>

\* C15: once connect, send or receive has failed, the invocation is over: it
\* is in failure, has reported nothing, has sent no line twice and nothing
\* after the failure; a failure while loading the snapshot leaves at most
\* `show stat` sent.
C15_FatalNoRetry ==
    err = "socket.error" =>
        /\ pc = "failed"
        /\ Len(sent) <= 2
        /\ \A i, j \in DOMAIN sent : sent[i] = sent[j] => i = j
        /\ ret = "act" => (sent = <<>> \/ sent = << <<ShowStat>> >>)
        /\ ret = "exit" => (/\ sent[1] = <<ShowStat>>
                            /\ Len(sent) = 2 => sent[2] = cmd)

\* receive fails in the round trip that carried the mutating line
C15_Witness ==
    /\ pc = "failed"
    /\ err = "socket.error"
    /\ ret = "exit"
    /\ Len(sent) = 2
    /\ IsMutating(sent[2])
    /\ nopen = 1

\* the invocation has ended, in a result or in a failure
Terminated == pc \in {"done", "failed"}

\* C16: every invocation that is started eventually ends, in a result or in a
\* failure (the peer closes the stream after each answer).
C16_Terminates == (pc = "main") ~> Terminated

\* an invocation that went through both receive loops and reported
C16_Witness ==
    /\ pc = "done"
    /\ run = 1
    /\ Len(sent) = 2
    /\ rem = 0
    /\ nopen = 0

\* C17: a live `disabled` run for an existing member that is run again with
\* the same request, against the state the first run left behind, reports
\* changed = false and sends no mutating sub-command.
C17_DisabledIdempotent ==
    (/\ run > 1
     /\ ~first.check_mode
     /\ pc = "done"
     /\ params.state = "disabled"
     /\ Live
     /\ Named # {})
        => (changed = FALSE /\ MutatingTrips = {})

\* C18: when the member <pool>/<host> that the commands name is in the dump,
\* the record whose status and weight were read is the record of that member.
C18_SameMember ==
    (Decided /\ Named # {}) =>
        /\ host_attributes[AttributeIndex["pxname"] + 1] = backend
        /\ host_attributes[2] = params.host

\* C19: a `disabled` invocation never sends (or composes) `set weight` or
\* `enable server`, makes no weight decision, and reports changed by the
\* status read alone, whatever the weight argument is.
C19_DisabledNoWeight ==
    params.state = "disabled" =>
        /\ \A i \in DOMAIN sent : \A j \in DOMAIN sent[i] :
               sent[i][j].op \notin {"set weight", "enable server"}
        /\ \A j \in DOMAIN cmd : cmd[j].op \notin {"set weight", "enable server"}
        /\ weight_changed = FALSE
        /\ pc = "done" => changed = (host_attributes[18] # "MAINT")

C19_Witness ==
    /\ params.state = "disabled"
    /\ params.weight = "50"
    /\ host_attributes # NoneAttrs
    /\ host_attributes[19] = "1"
    /\ pc = "done"
    /\ Live
    /\ changed = TRUE

====
